---- MODULE Spec2Model ----
(***************************************************************************)
(* Model of geofencingapp.py: the mosque cache file (cache_mosque_data,    *)
(* load_cached_mosque_data), the cache freshness test                      *)
(* (should_update_cache, haversine), the two fetchers and the MosqueApp    *)
(* start-up flow that fetches prayer times and schedules the alarms.       *)
(*                                                                         *)
(* Conventions.                                                            *)
(*  - A Python float is written as its repr string ("24.7136"): json.dump  *)
(*    writes the repr and json.load reads it back.                         *)
(*  - A Python str is a TLA+ string when it is only stored and compared,   *)
(*    and a sequence of one-character strings when the code formats or     *)
(*    parses it (the date "2024-12-31").                                   *)
(*  - A datetime.date is <<year, month, day>>.                             *)
(*  - A call that raises returns the name of the exception.                *)
(***************************************************************************)
EXTENDS Integers, Sequences, FiniteSets, TLC

VARIABLES
    today,        \* datetime.now().date()
    file,         \* CACHE_FILE on disk: [exists, text]
    job,          \* the cache_mosque_data call in progress or last completed: its
                  \* arguments, the date it read, the text not yet in the file
                  \* and, until it closes the file, what a load returned before
                  \* it opened it and the reply of the fetch when a refetch
                  \* made the call
    cached,       \* the record the last load_cached_mosque_data returned (None before)
    ret,          \* the last operation and what it returned or raised
    app,          \* MosqueApp: "not started", "alarms scheduled" when startup
                  \* returned, "raised" when an exception left it
    clock,        \* datetime.now() time of day, minutes after midnight
    user,         \* MosqueApp.user_lat, MosqueApp.user_lon
    prayer_times, \* the dict fetch_prayer_times returned, in insertion order
    next_prayer,  \* the label shown by prayer_time_label
    alarms        \* the lines schedule_prayer_alarms printed, in order

storeVars == <<today, file, job, cached, ret>>
appVars   == <<app, clock, user, prayer_times, next_prayer, alarms>>
vars      == <<today, file, job, cached, ret, app, clock, user, prayer_times,
               next_prayer, alarms>>

---------------------------------------------------------------------------
(* Program constants                                                       *)

UPDATE_DISTANCE == 20000
PRAYER_BUFFER_MINUTES == 5

---------------------------------------------------------------------------
(* Bounds of the model                                                     *)

\* the clock takes the dates FirstDate .. FirstDate + MaxDay
MaxDay == 1
\* a prayer-time reply holds at most MaxPrayers timings
MaxPrayers == 2

---------------------------------------------------------------------------
(* Dates: datetime.date, str(date) and datetime.strptime(s, '%Y-%m-%d')    *)

FirstDate == <<2024, 12, 31>>

IsLeap(y) == (y % 4 = 0 /\ y % 100 # 0) \/ y % 400 = 0

DaysIn(y, m) ==
    IF m = 2 THEN (IF IsLeap(y) THEN 29 ELSE 28)
    ELSE IF m \in {4, 6, 9, 11} THEN 30 ELSE 31

NextDay(d) ==
    IF d[3] < DaysIn(d[1], d[2]) THEN <<d[1], d[2], d[3] + 1>>
    ELSE IF d[2] < 12 THEN <<d[1], d[2] + 1, 1>>
    ELSE <<d[1] + 1, 1, 1>>

RECURSIVE DateAt(_)
DateAt(n) == IF n = 0 THEN FirstDate ELSE NextDay(DateAt(n - 1))

Dates == {DateAt(n) : n \in 0..MaxDay}

\* date.__gt__: a later calendar date
DateGT(a, b) ==
    \/ a[1] > b[1]
    \/ a[1] = b[1] /\ a[2] > b[2]
    \/ a[1] = b[1] /\ a[2] = b[2] /\ a[3] > b[3]

DigitChar == <<"0", "1", "2", "3", "4", "5", "6", "7", "8", "9">>

DigitVal(c) == CHOOSE i \in 0..9 : DigitChar[i + 1] = c

\* the decimal digits of n, zero-padded to width w
RECURSIVE Digits(_, _)
Digits(n, w) ==
    IF w = 0 THEN <<>> ELSE Digits(n \div 10, w - 1) \o <<DigitChar[(n % 10) + 1]>>

RECURSIVE Number(_)
Number(s) ==
    IF s = <<>> THEN 0
    ELSE 10 * Number(SubSeq(s, 1, Len(s) - 1)) + DigitVal(s[Len(s)])

\* str(date): 'YYYY-MM-DD'
DateStr(d) == Digits(d[1], 4) \o <<"-">> \o Digits(d[2], 2) \o <<"-">> \o Digits(d[3], 2)

\* datetime.strptime(s, '%Y-%m-%d').date()
Strptime(s) ==
    <<Number(SubSeq(s, 1, 4)), Number(SubSeq(s, 6, 7)), Number(SubSeq(s, 9, 10))>>

---------------------------------------------------------------------------
(* Coordinates and haversine                                               *)

RIYADH   == [lat |-> "24.7136", lon |-> "46.6753"]
EDGE     == [lat |-> "24.89319196242246", lon |-> "46.6862"]
ATLANTIC == [lat |-> "51.0579", lon |-> "-32.3125"]
TASMAN   == [lat |-> "-51.0579", lon |-> "147.6875"]

Points == {RIYADH, EDGE, ATLANTIC, TASMAN}

\* haversine(lat1, lon1, lat2, lon2) as the source computes it in IEEE doubles,
\* tabulated on Points.  m is the returned metres rounded up to a whole metre,
\* so that m > k exactly when the float is > k for every whole k; raised is set
\* where the rounded a exceeds 1 and sqrt(1 - a) raises ValueError.
\*   RIYADH-EDGE      20000.0             RIYADH-ATLANTIC   7145712.344902033
\*   RIYADH-TASMAN    12869374.451118547  EDGE-ATLANTIC     7131922.712172847
\*   EDGE-TASMAN      12883164.08384773   ATLANTIC-TASMAN   math domain error
haversine(lat1, lon1, lat2, lon2) ==
    LET a == [lat |-> lat1, lon |-> lon1]
        b == [lat |-> lat2, lon |-> lon2]
        pair == {a, b}
    IN  IF a = b THEN [raised |-> FALSE, m |-> 0]
        ELSE IF pair = {RIYADH, EDGE} THEN [raised |-> FALSE, m |-> 20000]
        ELSE IF pair = {RIYADH, ATLANTIC} THEN [raised |-> FALSE, m |-> 7145713]
        ELSE IF pair = {RIYADH, TASMAN} THEN [raised |-> FALSE, m |-> 12869375]
        ELSE IF pair = {EDGE, ATLANTIC} THEN [raised |-> FALSE, m |-> 7131923]
        ELSE IF pair = {EDGE, TASMAN} THEN [raised |-> FALSE, m |-> 12883165]
        ELSE [raised |-> TRUE, m |-> 0]

---------------------------------------------------------------------------
(* The cache record and its JSON text                                      *)

NoPoint == [lat |-> "", lon |-> ""]

\* Python None where a cache dict is expected
None == [isNone |-> TRUE, mosques |-> <<>>, last_lat |-> "", last_lon |-> "",
         last_update |-> <<>>]

Dict(mosques, lat, lon, update) ==
    [isNone |-> FALSE, mosques |-> mosques, last_lat |-> lat, last_lon |-> lon,
     last_update |-> update]

\* One chunk of the JSON text: a brace, or a key with its value.  The value is
\* a list of mosque dicts, a float repr, or a string.
Tok(key, list, num, str) == [key |-> key, list |-> list, num |-> num, str |-> str]

\* JsonDump with the two coordinates written under each other's key
JsonDumpSwapped(cache_data) ==
    << Tok("{", <<>>, "", <<>>),
       Tok("mosques", cache_data.mosques, "", <<>>),
       Tok("last_lat", <<>>, cache_data.last_lon, <<>>),
       Tok("last_lon", <<>>, cache_data.last_lat, <<>>),
       Tok("last_update", <<>>, "", cache_data.last_update),
       Tok("}", <<>>, "", <<>>) >>

\* json.dump(cache_data, f): the chunks written, keys in insertion order
JsonDump(cache_data) ==
    << Tok("{", <<>>, "", <<>>),
       Tok("mosques", cache_data.mosques, "", <<>>),
       Tok("last_lat", <<>>, cache_data.last_lat, <<>>),
       Tok("last_lon", <<>>, cache_data.last_lon, <<>>),
       Tok("last_update", <<>>, "", cache_data.last_update),
       Tok("}", <<>>, "", <<>>) >>

\* the text is one whole JSON object
Complete(text) ==
    /\ Len(text) >= 2
    /\ text[1].key = "{"
    /\ text[Len(text)].key = "}"
    /\ \A i \in 2..(Len(text) - 1) : text[i].key \notin {"{", "}"}

\* the value json.load gives key k of the object (None when the key is absent)
Member(text, k) ==
    IF \E i \in 1..Len(text) : text[i].key = k
    THEN text[CHOOSE i \in 1..Len(text) : text[i].key = k]
    ELSE Tok(k, <<>>, "", <<>>)

\* json.load(f): the dict, or JSONDecodeError on anything but a whole object
JsonLoad(text) ==
    IF Complete(text)
    THEN [raised |-> FALSE,
          value |-> Dict(Member(text, "mosques").list, Member(text, "last_lat").num,
                         Member(text, "last_lon").num, Member(text, "last_update").str)]
    ELSE [raised |-> TRUE, value |-> None]

\* cache_mosque_data, lines 67-72: the dict that is dumped
cache_data(mosques, lat, lon, now) == Dict(mosques, lat, lon, DateStr(now))

\* load_cached_mosque_data()
load_cached_mosque_data(f) ==
    IF f.exists THEN JsonLoad(f.text) ELSE [raised |-> FALSE, value |-> None]

---------------------------------------------------------------------------
(* The freshness test                                                      *)

\* should_update_cache(current_lat, current_lon, cached_data) at date now:
\* "True", "False", or the exception it raises
should_update_cache(current_lat, current_lon, cached_data, now) ==
    IF cached_data.isNone THEN "AttributeError"
    ELSE LET distance == haversine(current_lat, current_lon,
                                   cached_data.last_lat, cached_data.last_lon)
         IN  IF distance.raised THEN "ValueError"
             ELSE IF distance.m > UPDATE_DISTANCE THEN "True"
             ELSE IF DateGT(now, Strptime(cached_data.last_update)) THEN "True"
             ELSE "False"

---------------------------------------------------------------------------
(* The Overpass fetch                                                      *)

\* elements of an Overpass reply: a node without a name tag, a named node, and
\* an element without coordinates
E1 == [named |-> FALSE, name |-> "", located |-> TRUE, lat |-> "24.7", lon |-> "46.7"]
E2 == [named |-> TRUE, name |-> "Al Rajhi", located |-> TRUE, lat |-> "24.68",
       lon |-> "46.73"]
E3 == [named |-> TRUE, name |-> "King Khalid", located |-> FALSE, lat |-> "", lon |-> ""]

ElementLists == {<<E1, E2>>, <<E3, E2>>}

\* what requests.get gives: a reply with a status code, or ConnectionError
OverpassReplies ==
    {[raised |-> FALSE, status_code |-> 200, elements |-> es] : es \in ElementLists}
    \cup {[raised |-> FALSE, status_code |-> 503, elements |-> <<>>],
          [raised |-> TRUE, status_code |-> 0, elements |-> <<>>]}

RECURSIVE Mosques(_)
Mosques(elements) ==
    IF elements = <<>> THEN <<>>
    ELSE LET element == Head(elements)
         IN  (IF element.located
              THEN << [name |-> IF element.named THEN element.name ELSE "Unnamed Mosque",
                       lat |-> element.lat, lon |-> element.lon] >>
              ELSE <<>>) \o Mosques(Tail(elements))

\* fetch_mosque_locations(lat, lon) on the reply requests.get gives
fetch_mosque_locations(response) ==
    IF response.raised THEN [raised |-> TRUE, mosques |-> <<>>]
    ELSE IF response.status_code = 200
    THEN [raised |-> FALSE, mosques |-> Mosques(response.elements)]
    ELSE [raised |-> FALSE, mosques |-> <<>>]

\* the lists a caller can hold
MosqueLists == {fetch_mosque_locations(r).mosques : r \in OverpassReplies}

---------------------------------------------------------------------------
(* Initial state: no cache file, nothing loaded, the app not started       *)

Ret(op, arg, out) == [op |-> op, arg |-> arg, out |-> out]

\* no cache_mosque_data call in progress
NoJob(state) ==
    [state |-> state, caller |-> "", mosques |-> <<>>, lat |-> "", lon |-> "",
     saved_on |-> FirstDate, pending |-> <<>>,
     before |-> [raised |-> FALSE, value |-> None]]

Init ==
    /\ today = FirstDate
    /\ file = [exists |-> FALSE, text |-> <<>>]
    /\ job = NoJob("idle")
    /\ cached = None
    /\ ret = Ret("init", NoPoint, "")
    /\ app = "not started"
    /\ clock = 0
    /\ user = NoPoint
    /\ prayer_times = <<>>
    /\ next_prayer = ""
    /\ alarms = <<>>

---------------------------------------------------------------------------
(* The cache store and the freshness test                                  *)

\* the system date changes: midnight passes, or the clock is set (also back).
\* The save reads the date once, before it opens the file (line 71), so a change
\* during the write is the same as one right after it.
SetClock(d) ==
    /\ job.state # "writing"
    /\ d # today
    /\ today' = d
    /\ ret' = Ret("clock", NoPoint, "")
    /\ UNCHANGED <<file, job, cached>>
    /\ UNCHANGED appVars

\* cache_mosque_data(mosques, lat, lon), lines 67-73: the dict is built and
\* open(CACHE_FILE, "w") creates or truncates the file
OpenCache(caller, mosques, lat, lon) ==
    /\ job.state # "writing"
    /\ job' = [state |-> "writing", caller |-> caller,
               mosques |-> mosques, lat |-> lat, lon |-> lon, saved_on |-> today,
               pending |-> JsonDump(cache_data(mosques, lat, lon, today)),
               before |-> load_cached_mosque_data(file)]
    /\ file' = [exists |-> TRUE, text |-> <<>>]
    /\ UNCHANGED <<today, cached>>
    /\ UNCHANGED appVars

\* a direct call of cache_mosque_data
CacheMosqueData(mosques, p) ==
    /\ OpenCache("", mosques, p.lat, p.lon)
    /\ ret' = Ret("cache_mosque_data", p, "")

\* line 74: the buffered text reaches the file a chunk at a time
CacheWrite ==
    /\ job.state = "writing"
    /\ job.pending # <<>>
    /\ file' = [file EXCEPT !.text = Append(@, Head(job.pending))]
    /\ job' = [job EXCEPT !.pending = Tail(@)]
    /\ ret' = Ret("write", NoPoint, "")
    /\ UNCHANGED <<today, cached>>
    /\ UNCHANGED appVars

\* leaving the with block: the rest of the buffer is flushed, the file closed
CacheClose ==
    /\ job.state = "writing"
    /\ file' = [file EXCEPT !.text = @ \o job.pending]
    /\ job' = [job EXCEPT !.state = "saved", !.pending = <<>>, !.caller = "",
                           !.before = [raised |-> FALSE, value |-> None]]
    /\ ret' = Ret("close", NoPoint, "")
    /\ UNCHANGED <<today, cached>>
    /\ UNCHANGED appVars

\* the process dies inside the with block: the buffer is lost, the file stays
\* as far as it was written, and the next process starts with nothing loaded
Kill ==
    /\ job.state = "writing"
    /\ job' = NoJob("idle")
    /\ cached' = None
    /\ ret' = Ret("kill", NoPoint, "")
    /\ UNCHANGED <<today, file>>
    /\ UNCHANGED appVars

\* a call of load_cached_mosque_data, also while a save is in progress
Load ==
    LET r == load_cached_mosque_data(file)
    IN  /\ ret' = Ret("load_cached_mosque_data", NoPoint,
                      IF r.raised THEN "JSONDecodeError"
                      ELSE IF r.value.isNone THEN "None" ELSE "dict")
        /\ cached' = IF r.raised THEN cached ELSE r.value
        /\ UNCHANGED <<today, file, job>>
        /\ UNCHANGED appVars

\* a call of should_update_cache on what load returned
ShouldUpdateCache(cur) ==
    /\ job.state # "writing"
    /\ ret' = Ret("should_update_cache", cur,
                  should_update_cache(cur.lat, cur.lon, cached, today))
    /\ UNCHANGED <<today, file, job, cached>>
    /\ UNCHANGED appVars

\* the refetch step of the orchestrator: fetch_mosque_locations, then
\* cache_mosque_data with what it returned
Refetch(cur, response) ==
    LET r == fetch_mosque_locations(response)
    IN  /\ job.state # "writing"
        /\ ret' = Ret("refetch", cur,
                      IF response.raised THEN "ConnectionError"
                      ELSE IF response.status_code = 200 THEN "200" ELSE "not 200")
        /\ IF r.raised
           THEN UNCHANGED <<today, file, job, cached>> /\ UNCHANGED appVars
           ELSE OpenCache(ret'.out, r.mosques, cur.lat, cur.lon)

StoreNext ==
    \/ \E d \in Dates : SetClock(d)
    \/ \E mosques \in MosqueLists, p \in Points : CacheMosqueData(mosques, p)
    \/ CacheWrite
    \/ CacheClose
    \/ Kill
    \/ Load
    \/ \E cur \in Points : ShouldUpdateCache(cur)
    \/ \E cur \in Points, response \in OverpassReplies : Refetch(cur, response)

Spec == Init /\ [][StoreNext]_vars

---------------------------------------------------------------------------
(* Prayer times: fetch_prayer_times, the next prayer, schedule_prayer_alarms *)

\* datetime.strptime(s, "%H:%M") is 1900-01-01 at that time.  A datetime is
\* held as its minutes after 1900-01-01 00:00, negative before it.
Epoch == <<1900, 1, 1>>

PrevDay(d) ==
    IF d[3] > 1 THEN <<d[1], d[2], d[3] - 1>>
    ELSE IF d[2] > 1 THEN <<d[1], d[2] - 1, DaysIn(d[1], d[2] - 1)>>
    ELSE <<d[1] - 1, 12, 31>>

RECURSIVE DateFrom(_, _)
DateFrom(d, n) ==
    IF n = 0 THEN d
    ELSE IF n > 0 THEN DateFrom(NextDay(d), n - 1)
    ELSE DateFrom(PrevDay(d), n + 1)

\* datetime.strptime(s, "%H:%M")
StrptimeHM(s) == Number(SubSeq(s, 1, 2)) * 60 + Number(SubSeq(s, 4, 5))

\* str(datetime) as print shows it: the date and the time of day
StrDatetime(t) ==
    [date |-> DateFrom(Epoch, t \div 1440),
     time |-> Digits((t % 1440) \div 60, 2) \o <<":">> \o Digits(t % 60, 2)]

\* MinusMinutes that cannot go before midnight
MinusMinutesClamped(t, n) == IF t - n < 0 THEN 0 ELSE t - n

\* time - timedelta(minutes=n)
MinusMinutes(t, n) == t - n

Prayers == {"Fajr", "Dhuhr", "Isha"}

TimeStrs == { <<"0", "0", ":", "0", "2">>, <<"0", "5", ":", "0", "0">>,
              <<"1", "2", ":", "1", "5">>, <<"1", "9", ":", "4", "0">> }

\* the 'timings' object of a reply: prayer names, each once, in the reply's order
RECURSIVE TimingsOfLen(_)
TimingsOfLen(n) ==
    IF n = 0 THEN {<<>>}
    ELSE { Append(t, [prayer |-> p, time |-> s]) :
             t \in TimingsOfLen(n - 1), p \in Prayers, s \in TimeStrs }

Timings ==
    { t \in UNION {TimingsOfLen(n) : n \in 0..MaxPrayers} :
        \A i, j \in 1..Len(t) : t[i].prayer = t[j].prayer => i = j }

\* what requests.get and response.json() give: the timings, a body without
\* them, or ConnectionError
AladhanReplies ==
    {[raised |-> FALSE, has_timings |-> TRUE, timings |-> t] : t \in Timings}
    \cup {[raised |-> FALSE, has_timings |-> FALSE, timings |-> <<>>],
          [raised |-> TRUE, has_timings |-> FALSE, timings |-> <<>>]}

\* lines 35-38: every timing parsed
RECURSIVE ParseTimings(_)
ParseTimings(timings) ==
    IF timings = <<>> THEN <<>>
    ELSE << [prayer |-> Head(timings).prayer, time |-> StrptimeHM(Head(timings).time)] >>
         \o ParseTimings(Tail(timings))

\* fetch_prayer_times(latitude, longitude, api_key) on the reply
fetch_prayer_times(response) ==
    IF response.raised THEN [raised |-> "ConnectionError", prayer_times |-> <<>>]
    ELSE IF ~response.has_timings THEN [raised |-> "KeyError", prayer_times |-> <<>>]
    ELSE [raised |-> "", prayer_times |-> ParseTimings(response.timings)]

\* min(prayer_times, key=lambda p: prayer_times[p]): the first key, in the
\* dict's order, whose time no other is before
MinPrayer(pt) ==
    LET i == CHOOSE k \in 1..Len(pt) :
                 /\ \A j \in 1..Len(pt) : pt[k].time <= pt[j].time
                 /\ \A j \in 1..(k - 1) : pt[j].time # pt[k].time
    IN  pt[i].prayer

\* schedule_prayer_alarms(prayer_times): the lines printed, one per item
RECURSIVE schedule_prayer_alarms(_)
schedule_prayer_alarms(pt) ==
    IF pt = <<>> THEN <<>>
    ELSE LET alarm_time == MinusMinutes(Head(pt).time, PRAYER_BUFFER_MINUTES)
         IN  << [prayer |-> Head(pt).prayer, alarm_time |-> StrDatetime(alarm_time)] >>
             \o schedule_prayer_alarms(Tail(pt))

---------------------------------------------------------------------------
(* MosqueApp                                                               *)

ClockTimes == {0, 780, 1385}

\* the time of day at which the app is started
SetTime(t) ==
    /\ app = "not started"
    /\ t # clock
    /\ clock' = t
    /\ UNCHANGED <<app, user, prayer_times, next_prayer, alarms>>
    /\ UNCHANGED storeVars

\* startup -> request_location_permission ->
\* fetch_prayer_times_and_schedule_alarms, to its return or to the exception
\* that leaves startup
Startup(response) ==
    LET r == fetch_prayer_times(response)
    IN  /\ app = "not started"
        /\ user' = RIYADH
        /\ IF r.raised # ""
           THEN /\ app' = "raised"
                /\ ret' = Ret("startup", RIYADH, r.raised)
                /\ UNCHANGED <<prayer_times, next_prayer, alarms>>
           ELSE IF r.prayer_times = <<>>
           THEN /\ app' = "raised"
                /\ ret' = Ret("startup", RIYADH, "ValueError")
                /\ prayer_times' = r.prayer_times
                /\ UNCHANGED <<next_prayer, alarms>>
           ELSE /\ app' = "alarms scheduled"
                /\ ret' = Ret("startup", RIYADH, "")
                /\ prayer_times' = r.prayer_times
                /\ next_prayer' = MinPrayer(r.prayer_times)
                /\ alarms' = schedule_prayer_alarms(r.prayer_times)
        /\ UNCHANGED <<clock, today, file, job, cached>>

\* refresh_data(widget): pass
RefreshData ==
    /\ app = "alarms scheduled"
    /\ UNCHANGED vars

\* the process ends; the next one starts from the constructor
Quit ==
    /\ app # "not started"
    /\ app' = "not started"
    /\ user' = NoPoint
    /\ prayer_times' = <<>>
    /\ next_prayer' = ""
    /\ alarms' = <<>>
    /\ ret' = Ret("quit", NoPoint, "")
    /\ UNCHANGED <<clock, today, file, job, cached>>

AppNext ==
    \/ \E t \in ClockTimes : SetTime(t)
    \/ \E response \in AladhanReplies : Startup(response)
    \/ RefreshData
    \/ Quit

AppSpec == Init /\ [][AppNext]_vars

---------------------------------------------------------------------------
(* Properties of the cache store and the freshness test, under Spec        *)

\* the great-circle distance in metres, rounded up, where haversine raises
\* too: ATLANTIC and TASMAN are antipodes, half the circumference apart
GreatCircle(p, q) ==
    LET h == haversine(p.lat, p.lon, q.lat, q.lon)
    IN  IF h.raised THEN 20015087 ELSE h.m

\* the cache dict of a call's arguments and date
Saved(j) == Dict(j.mosques, j.lat, j.lon, DateStr(j.saved_on))

\* C1: with no record loaded, the freshness test returns true for every
\* current coordinate, and does not raise
C1_AbsentRecordNeedsRefresh ==
    (ret.op = "should_update_cache" /\ cached.isNone) => ret.out = "True"

\* C2: with a record loaded, the freshness test returns, and returns true
\* exactly when the current coordinate is more than 20 000 m from the
\* record's or the current date is later than the record's fetch date
C2_RefreshIffMovedOrLaterDate ==
    (ret.op = "should_update_cache" /\ ~cached.isNone) =>
        /\ ret.out \in {"True", "False"}
        /\ ret.out = "True" <=>
              \/ GreatCircle(ret.arg, [lat |-> cached.last_lat, lon |-> cached.last_lon])
                   > 20000
              \/ DateGT(today, Strptime(cached.last_update))

\* C3: a refetch whose fetch failed (ConnectionError, or a reply that is not
\* 200) leaves the cache as it was: it does not start a save or, when its
\* save is over, the file holds the record it held before the refetch
C3_FailedRefetchKeepsCache ==
    [][ /\ (ret'.op = "refetch" /\ ret'.out = "ConnectionError") =>
              (file' = file /\ cached' = cached)
        /\ (job.state = "writing" /\ job.caller = "not 200" /\ job'.state = "saved") =>
              (load_cached_mosque_data(file') = job.before /\ cached' = cached) ]_vars

\* C6: a load right after a completed save returns the record saved: the same
\* mosque list, the same coordinate, the same fetch date
C6_SaveThenLoadRoundTrips ==
    (ret.op = "load_cached_mosque_data" /\ job.state = "saved") =>
        /\ ret.out = "dict"
        /\ cached.mosques = job.mosques
        /\ cached.last_lat = job.lat
        /\ cached.last_lon = job.lon
        /\ Strptime(cached.last_update) = job.saved_on

\* a load after a save of two mosques on the second day
C6_Witness ==
    /\ ret.op = "load_cached_mosque_data"
    /\ job.state = "saved"
    /\ Len(job.mosques) = 2
    /\ job.lat # job.lon
    /\ job.saved_on # FirstDate

\* C7: with no save in progress, load returns None, and does not raise, both
\* when the file is missing and when it holds no whole record
C7_LoadOfMissingOrCorruptIsNone ==
    ( /\ ret.op = "load_cached_mosque_data"
      /\ job.state # "writing"
      /\ (~file.exists \/ ~Complete(file.text)) ) => ret.out = "None"

\* C8: a load during a save returns what a load returned before the save
\* began, or the whole record being saved
C8_ConcurrentLoadSeesWholeRecord ==
    ( /\ ret.op = "load_cached_mosque_data"
      /\ job.state = "writing"
      /\ ~job.before.raised ) =>
        /\ ret.out # "JSONDecodeError"
        /\ cached \in {job.before.value, Saved(job)}

---------------------------------------------------------------------------
(* Properties of MosqueApp, under AppSpec                                  *)

\* the minutes of the day a printed time shows
MinuteOfDay(hm) == Number(SubSeq(hm, 1, 2)) * 60 + Number(SubSeq(hm, 4, 5))

\* C4: when the fetch fails no alarm is scheduled and the flow does not end
\* with an exception: it stays where the fetch can be retried
C4_FailedFetchDoesNotCrash ==
    (ret.op = "startup" /\ ret.out \in {"ConnectionError", "KeyError"}) =>
        /\ alarms = <<>>
        /\ app # "raised"

\* C5: starting with no cache, once the first location sample is processed
\* the cache holds a record with the sample's coordinate and today's date
C5_FirstSampleFillsCache ==
    app = "alarms scheduled" =>
        LET r == load_cached_mosque_data(file)
        IN  /\ ~r.raised
            /\ ~r.value.isNone
            /\ r.value.last_lat = user.lat
            /\ r.value.last_lon = user.lon
            /\ Strptime(r.value.last_update) = today

\* C9: the alarms are one per prayer of the schedule and none for another
\* label, each PRAYER_BUFFER_MINUTES before its prayer; a prayer less than
\* that after midnight has its alarm on the previous calendar day
C9_OneAlarmPerPrayerAtTimeMinusLead ==
    app = "alarms scheduled" =>
        /\ \A i \in 1..Len(prayer_times) :
              Cardinality({k \in 1..Len(alarms) : alarms[k].prayer = prayer_times[i].prayer})
                = 1
        /\ \A k \in 1..Len(alarms) :
              \E i \in 1..Len(prayer_times) :
                 /\ alarms[k].prayer = prayer_times[i].prayer
                 /\ IF prayer_times[i].time >= PRAYER_BUFFER_MINUTES
                    THEN /\ alarms[k].alarm_time.date = Epoch
                         /\ MinuteOfDay(alarms[k].alarm_time.time)
                              = prayer_times[i].time - PRAYER_BUFFER_MINUTES
                    ELSE /\ alarms[k].alarm_time.date = <<1899, 12, 31>>
                         /\ MinuteOfDay(alarms[k].alarm_time.time)
                              = 1440 + prayer_times[i].time - PRAYER_BUFFER_MINUTES

\* two prayers scheduled, one of them at 00:02
C9_Witness ==
    /\ app = "alarms scheduled"
    /\ Len(alarms) = 2
    /\ \E i \in 1..Len(prayer_times) : prayer_times[i].time < PRAYER_BUFFER_MINUTES

\* C10: the prayer shown as next is the earliest one later than now, and the
\* earliest of the day only when every prayer has passed
C10_NextPrayerIsNextAfterNow ==
    app = "alarms scheduled" =>
        LET later == {i \in 1..Len(prayer_times) : prayer_times[i].time > clock}
            shown == CHOOSE i \in 1..Len(prayer_times) : prayer_times[i].prayer = next_prayer
        IN  IF later # {}
            THEN /\ shown \in later
                 /\ \A i \in later : prayer_times[shown].time <= prayer_times[i].time
            ELSE \A i \in 1..Len(prayer_times) :
                     prayer_times[shown].time <= prayer_times[i].time

====
